---------------------------- MODULE Spec2Model ----------------------------
(***************************************************************************)
(* MoviWebApp (wbkay71/movie4): the DataManager over the users and movies  *)
(* tables (src/data_manager.py, src/models.py), the OMDb lookup functions  *)
(* and the Flask handlers that call them (src/app.py).                     *)
(*                                                                         *)
(* Four specifications share the variables:                                *)
(*   Spec        the database under calls of the DataManager methods;      *)
(*   SpecWeb     the database under the requests the handlers serve;       *)
(*   SpecLookup  fetch_movie_from_api and search_movies_from_api applied   *)
(*               to every bounded answer of the OMDb service;              *)
(*   SpecForm    the update handler applied to every bounded pair of       *)
(*               submitted year and user_rating texts.                     *)
(*                                                                         *)
(* Python values: title, director and name are TLA+ strings, year is an    *)
(* integer, a nullable or float value is a record tagged by "py".  A text  *)
(* that the code parses is a sequence of one-character strings.            *)
(***************************************************************************)
EXTENDS Integers, Sequences, FiniteSets, TLC

VARIABLES
    users,    \* table users:  id -> name                    (models.py:9-21)
    movies,   \* table movies: id -> row of Movie's columns  (models.py:28-45)
    call,     \* the last call: its operation, arguments and outcome
    before    \* the two tables as they were when the last call started

vars == <<users, movies, call, before>>

-----------------------------------------------------------------------------
(* Bounds of the model.                                                    *)

MaxUsers == 2       \* user ids are 1..MaxUsers
MaxMovies == 2      \* movie ids are 1..MaxMovies
MaxHits == 11       \* the service lists 0..MaxHits search hits
MaxTextLen == 2     \* the enumerated form texts have 0..MaxTextLen characters

-----------------------------------------------------------------------------
(* Python values.                                                          *)

None == [py |-> "None"]

Str(x) == [py |-> "str", v |-> x]

RECURSIVE FloatNorm(_, _)
\* The float m / 10^s, with a canonical (m, s): 9.0 and 9 are one value.
FloatNorm(m, s) ==
    IF s > 0 /\ m % 10 = 0 THEN FloatNorm(m \div 10, s - 1)
    ELSE [py |-> "float", m |-> m, s |-> s]

Float(m, s) == FloatNorm(m, s)

FloatNaN == [py |-> "float", special |-> "nan"]

FloatInf(sign) == [py |-> "float", special |-> "inf", sign |-> sign]

\* Parsed JSON: an object (its members as a function from keys), an array,
\* a string (Str), a number (Float) or null (None).
JsonDict(d) == [py |-> "dict", d |-> d]

JsonList(v) == [py |-> "list", v |-> v]

\* The outcome of an expression that may raise.
Ok(v) == [v |-> v, exc |-> "none"]

Raise(e) == [exc |-> e]

-----------------------------------------------------------------------------
(* Texts and their conversions (str.isdigit, str.strip, int(), float()).   *)

DigitChars == {"0", "1", "2", "3", "4", "5", "6", "7", "8", "9"}

DigitVal(c) ==
    CASE c = "0" -> 0 [] c = "1" -> 1 [] c = "2" -> 2 [] c = "3" -> 3
      [] c = "4" -> 4 [] c = "5" -> 5 [] c = "6" -> 6 [] c = "7" -> 7
      [] c = "8" -> 8 [] c = "9" -> 9

\* str.isdigit(): a non-empty text of digits only.
str_isdigit(t) == Len(t) > 0 /\ \A i \in 1..Len(t) : t[i] \in DigitChars

RECURSIVE DecVal(_)
\* The number a text of decimal digits denotes (0 for the empty text).
DecVal(t) ==
    IF t = <<>> THEN 0
    ELSE 10 * DecVal(SubSeq(t, 1, Len(t) - 1)) + DigitVal(t[Len(t)])

RECURSIVE str_strip(_)
\* str.strip(): the text without its leading and trailing blanks.
str_strip(t) ==
    IF t = <<>> THEN t
    ELSE IF t[1] = " " THEN str_strip(Tail(t))
    ELSE IF t[Len(t)] = " " THEN str_strip(SubSeq(t, 1, Len(t) - 1))
    ELSE t

Unsigned(s) == IF s # <<>> /\ s[1] \in {"+", "-"} THEN Tail(s) ELSE s

Negative(s) == s # <<>> /\ s[1] = "-"

\* The digits of a literal with single underscores between digits removed.
NoUnderscores(b) == SelectSeq(b, LAMBDA c : c # "_")

\* A decimal integer literal: digits, single underscores allowed between them.
IsIntLiteral(b) ==
    /\ b # <<>>
    /\ \A i \in 1..Len(b) : b[i] \in DigitChars \cup {"_"}
    /\ b[1] # "_" /\ b[Len(b)] # "_"
    /\ \A i \in 1..(Len(b) - 1) : ~(b[i] = "_" /\ b[i + 1] = "_")

\* int(text): blanks stripped, an optional sign, then a decimal literal;
\* anything else raises ValueError.
py_int(t) ==
    LET s == str_strip(t)
        b == Unsigned(s)
    IN  IF IsIntLiteral(b)
        THEN Ok(IF Negative(s) THEN 0 - DecVal(NoUnderscores(b))
                ELSE DecVal(NoUnderscores(b)))
        ELSE Raise("ValueError")

\* The position of the first "." of a text, 0 if it has none.
DotAt(b) ==
    IF \E i \in 1..Len(b) : b[i] = "."
    THEN CHOOSE i \in 1..Len(b) : b[i] = "." /\ \A j \in 1..(i - 1) : b[j] # "."
    ELSE 0

\* float(text): blanks stripped, an optional sign, then digits with at most
\* one "." and a digit on one side of it, or nan, inf, infinity; anything
\* else raises ValueError.  (Exponents and underscores are not in the
\* alphabet of the enumerated texts.)
py_float(t) ==
    LET s == str_strip(t)
        b == Unsigned(s)
        d == DotAt(b)
        ip == IF d = 0 THEN b ELSE SubSeq(b, 1, d - 1)
        fp == IF d = 0 THEN <<>> ELSE SubSeq(b, d + 1, Len(b))
        digits(x) == \A i \in 1..Len(x) : x[i] \in DigitChars
        m == DecVal(ip \o fp)
    IN  IF b = <<"n", "a", "n">> THEN Ok(FloatNaN)
        ELSE IF b \in {<<"i", "n", "f">>,
                       <<"i", "n", "f", "i", "n", "i", "t", "y">>}
        THEN Ok(FloatInf(IF Negative(s) THEN "-" ELSE "+"))
        ELSE IF digits(ip) /\ digits(fp) /\ Len(ip) + Len(fp) > 0
        THEN Ok(Float(IF Negative(s) THEN 0 - m ELSE m, Len(fp)))
        ELSE Raise("ValueError")

-----------------------------------------------------------------------------
(* The tables (src/models.py) and the session's commit.                    *)

UserIds == 1..MaxUsers

MovieIds == 1..MaxMovies

\* The mapped attributes of class Movie: its columns and the backref "user"
\* of User.movies.  There is no user_rating among them.
MovieAttrs ==
    {"id", "title", "director", "year", "rating", "poster", "imdb_id",
     "user_id", "user"}

\* The columns of table movies besides the primary key.
MovieColumns ==
    {"title", "director", "year", "rating", "poster", "imdb_id", "user_id"}

Restrict(f, S) == [x \in S |-> f[x]]

SetMax(S) == CHOOSE x \in S : \A y \in S : y <= x

\* The primary key SQLite gives a new row of an INTEGER PRIMARY KEY table:
\* one more than the largest key in the table.
NewId(ids) == IF ids = {} THEN 1 ELSE SetMax(ids) + 1

\* Movie(**kwargs), the constructor db.Model gives a class that defines no
\* __init__: a keyword that names no attribute of the class raises TypeError,
\* the others are set.
Movie_init(kwargs) ==
    IF DOMAIN kwargs \subseteq MovieAttrs THEN Ok(kwargs)
    ELSE Raise("TypeError")

\* What a flush writes of a Movie object: its mapped columns.  An attribute
\* set on the object that is no column of the class is not written.
Flush(obj) == Restrict(obj, DOMAIN obj \cap MovieColumns)

\* The outcome of a DataManager method: the tables after it, what it
\* returned and what it raised.
Outcome(d, ret, exc) == [exc |-> exc, ret |-> ret, db |-> d]

-----------------------------------------------------------------------------
(* DataManager (src/data_manager.py); d is the database the call finds.    *)

add_user(d, name) ==
    LET id == NewId(DOMAIN d.users)
    IN  Outcome([d EXCEPT !.users = (id :> name) @@ d.users],
                [name |-> name, id |-> id], "none")

get_all_users(d) == DOMAIN d.users

get_user_by_id(d, user_id) ==
    IF user_id \in DOMAIN d.users
    THEN [name |-> d.users[user_id], id |-> user_id]
    ELSE None

\* The ids of the rows get_user_movies lists.
get_user_movies(d, user_id) ==
    {m \in DOMAIN d.movies : d.movies[m].user_id = user_id}

\* As delete_user, without the cascade of User.movies.
delete_user_nocascade(d, user_id) ==
    IF user_id \notin DOMAIN d.users THEN Outcome(d, FALSE, "none")
    ELSE Outcome([d EXCEPT !.users = Restrict(@, DOMAIN @ \ {user_id})],
                 TRUE, "none")

\* As delete_user, with a cascade that takes every user's movies.
delete_user_all_movies(d, user_id) ==
    IF user_id \notin DOMAIN d.users THEN Outcome(d, FALSE, "none")
    ELSE Outcome([users |-> Restrict(d.users, DOMAIN d.users \ {user_id}),
                  movies |-> Restrict(d.movies, {})],
                 TRUE, "none")

\* db.session.delete(user): the cascade of User.movies deletes the rows
\* whose user_id is the user's, then the user's row, in one commit.
delete_user(d, user_id) ==
    IF user_id \notin DOMAIN d.users THEN Outcome(d, FALSE, "none")
    ELSE Outcome(
           [users |-> Restrict(d.users, DOMAIN d.users \ {user_id}),
            movies |-> Restrict(d.movies,
                                DOMAIN d.movies \ get_user_movies(d, user_id))],
           TRUE, "none")

\* add_movie always passes user_rating, which Movie_init refuses: for an
\* existing user the call raises before anything is added to the session.
add_movie(d, user_id, title, director, year, rating, poster, imdb_id) ==
    IF user_id \notin DOMAIN d.users THEN Outcome(d, None, "none")
    ELSE LET new_movie ==
                 Movie_init([user_id |-> user_id, title |-> title,
                             director |-> director, year |-> year,
                             rating |-> rating, poster |-> poster,
                             imdb_id |-> imdb_id, user_rating |-> None])
             id == NewId(DOMAIN d.movies)
         IN  IF new_movie.exc # "none" THEN Outcome(d, None, new_movie.exc)
             ELSE Outcome(
                    [d EXCEPT !.movies = (id :> Flush(new_movie.v)) @@ d.movies],
                    (("id" :> id) @@ new_movie.v), "none")

\* As update_movie, with the user's rating written to the rating column
\* (the signature of the earlier revision: title, director, year, rating).
update_movie_sets_rating(d, movie_id, title, director, year, user_rating) ==
    IF movie_id \notin DOMAIN d.movies THEN Outcome(d, None, "none")
    ELSE LET movie == [d.movies[movie_id] EXCEPT
                           !.title = title, !.director = director,
                           !.year = year, !.rating = user_rating]
             obj == ("id" :> movie_id) @@ movie
         IN  Outcome([d EXCEPT !.movies[movie_id] = Flush(obj)], obj, "none")

\* The returned object carries user_rating as a plain attribute; the commit
\* writes the columns title, director and year.
update_movie(d, movie_id, title, director, year, user_rating) ==
    IF movie_id \notin DOMAIN d.movies THEN Outcome(d, None, "none")
    ELSE LET movie == [d.movies[movie_id] EXCEPT
                           !.title = title, !.director = director,
                           !.year = year]
             obj == ("id" :> movie_id) @@ ("user_rating" :> user_rating) @@ movie
         IN  Outcome([d EXCEPT !.movies[movie_id] = Flush(obj)], obj, "none")

\* As delete_movie, deleting by the movie's owner instead of its id.
delete_movie_of_owner(d, movie_id) ==
    IF movie_id \notin DOMAIN d.movies THEN Outcome(d, FALSE, "none")
    ELSE Outcome(
           [d EXCEPT !.movies =
               Restrict(@, DOMAIN @ \ get_user_movies(d, @[movie_id].user_id))],
           TRUE, "none")

delete_movie(d, movie_id) ==
    IF movie_id \notin DOMAIN d.movies THEN Outcome(d, FALSE, "none")
    ELSE Outcome(
           [d EXCEPT !.movies = Restrict(@, DOMAIN @ \ {movie_id})],
           TRUE, "none")

\* Reading user_rating of a row loaded from the table: the class has no
\* such attribute.
read_user_rating(row) ==
    IF "user_rating" \in DOMAIN row THEN Ok(row.user_rating)
    ELSE Raise("AttributeError")

-----------------------------------------------------------------------------
(* The answer of the OMDb service to one requests.get (src/app.py).        *)

\* dict.get(key, default)
dict_get(d, k, default) == IF k \in DOMAIN d THEN d[k] ELSE default

NA == <<"N", "/", "A">>

\* requests.get followed by raise_for_status and response.json(): the
\* parsed body, or the exception raised on the way.  jsonErr is the class
\* response.json() raises for a body that is no JSON: a RequestException
\* subclass in requests >= 2.27, a plain ValueError before.
http_json(answer, jsonErr) ==
    CASE answer.kind = "ConnectionError" -> Raise("RequestException")
      [] answer.kind = "HTTPError" -> Raise("RequestException")
      [] answer.kind = "not_json" -> Raise(jsonErr)
      [] answer.kind = "json" -> Ok(answer.data)

\* data.get('Response') == 'True'; a body that is no JSON object has no get.
response_true(data) ==
    IF data.py # "dict" THEN Raise("AttributeError")
    ELSE Ok(dict_get(data.d, "Response", None) = Str("True"))

\* int(data.get('Year', 0)) if data.get('Year', '').isdigit() else 0
year_of(d) ==
    LET y == dict_get(d, "Year", Str(<<>>))
    IN  IF y.py # "str" THEN Raise("AttributeError")
        ELSE IF str_isdigit(y.v) THEN py_int(y.v)
        ELSE Ok(0)

\* float(data.get('imdbRating', 0)) if data.get('imdbRating', 'N/A') != 'N/A'
\* else 0.0
rating_of(d) ==
    LET r == dict_get(d, "imdbRating", Str(NA))
    IN  IF r = Str(NA) THEN Ok(Float(0, 0))
        ELSE IF r.py = "str" THEN py_float(r.v)
        ELSE IF r.py = "float" THEN Ok(r)
        ELSE Raise("TypeError")

\* data.get('Poster') if data.get('Poster') != 'N/A' else None
poster_of(d) ==
    LET p == dict_get(d, "Poster", None)
    IN  IF p # Str("N/A") THEN p ELSE None

-----------------------------------------------------------------------------
(* The handlers of src/app.py.  Each yields the database after the request,*)
(* the DataManager call it made and its response.                          *)

NoCall == [op |-> "none"]

DmCall(op, args, out) ==
    [exc |-> out.exc, ret |-> out.ret, op |-> op, args |-> args]

Redirect(to, flash) == [to |-> to, flash |-> flash, status |-> 302]

NotFound == [status |-> 404]

Handled(d, dm, resp) == [db |-> d, dm |-> dm, resp |-> resp]

\* "if name": None and '' are false.
Truthy(x) == x # None /\ x.v # ""

\* The same test of a field held as a text.
TruthyText(x) == x # None /\ x.v # <<>>

create_user(d, name) ==
    IF Truthy(name)
    THEN LET out == add_user(d, name.v)
         IN  Handled(out.db, DmCall("add_user", <<name.v>>, out),
                     Redirect("index", "User added successfully!"))
    ELSE Handled(d, NoCall, Redirect("index", ""))

\* POST /users/<user_id>/movies: the title is searched for, nothing is added.
route_add_movie(d, user_id, form_title) ==
    LET title == str_strip(form_title)
    IN  IF title = <<>>
        THEN Handled(d, NoCall,
                     Redirect("user_movies", "Please enter a movie title!"))
        ELSE Handled(d, NoCall, Redirect("search_movies", ""))

\* The call of data_manager.add_movie in add_movie_by_id with the fields of
\* a found movie; an exception raised by a conversion or by the call is
\* caught by "except Exception".
add_fetched_movie(d, user_id, imdb_id, data) ==
    LET year == year_of(data)
        rating == rating_of(data)
        out == add_movie(d, user_id,
                         dict_get(data, "Title", Str("Unknown")),
                         dict_get(data, "Director", Str("Unknown")),
                         year.v, rating.v, poster_of(data), Str(imdb_id))
        dm == DmCall("add_movie", <<user_id, rating.v>>, out)
    IN  IF year.exc # "none" \/ rating.exc # "none"
        THEN Handled(d, NoCall, Redirect("user_movies", "Error adding movie."))
        ELSE IF out.exc # "none"
        THEN Handled(out.db, dm, Redirect("user_movies", "Error adding movie."))
        ELSE Handled(out.db, dm, Redirect("user_movies", "added successfully!"))

\* As add_movie_by_id, but an identifier the service does not know is
\* stored as a movie with fallback values.
add_movie_by_id_fallback(d, user_id, imdb_id, answer, jsonErr) ==
    IF get_user_by_id(d, user_id) = None THEN Handled(d, NoCall, NotFound)
    ELSE LET body == http_json(answer, jsonErr)
             found == response_true(body.v)
             row == [user_id |-> user_id, title |-> "Unknown",
                     director |-> "Unknown", year |-> 0,
                     rating |-> Float(0, 0), poster |-> None,
                     imdb_id |-> Str(imdb_id)]
         IN  IF body.exc # "none" \/ found.exc # "none"
             THEN Handled(d, NoCall,
                          Redirect("user_movies", "Error adding movie."))
             ELSE IF ~found.v
             THEN Handled([d EXCEPT !.movies =
                              (NewId(DOMAIN d.movies) :> row) @@ d.movies],
                          NoCall,
                          Redirect("user_movies",
                                   "Could not fetch movie details."))
             ELSE add_fetched_movie(d, user_id, imdb_id, body.v.d)

\* GET /users/<user_id>/movies/add/<imdb_id>: a request by id; every
\* exception of the try block ends in the flash "Error adding movie.".
add_movie_by_id(d, user_id, imdb_id, answer, jsonErr) ==
    IF get_user_by_id(d, user_id) = None THEN Handled(d, NoCall, NotFound)
    ELSE LET body == http_json(answer, jsonErr)
             found == response_true(body.v)
         IN  IF body.exc # "none" \/ found.exc # "none"
             THEN Handled(d, NoCall,
                          Redirect("user_movies", "Error adding movie."))
             ELSE IF ~found.v
             THEN Handled(d, NoCall,
                          Redirect("user_movies",
                                   "Could not fetch movie details."))
             ELSE add_fetched_movie(d, user_id, imdb_id, body.v.d)

\* The "Convert types" block of the update handler: one try around both
\* conversions, one except that resets both.
convert_types(year, user_rating) ==
    LET y == IF TruthyText(year) THEN py_int(year.v) ELSE Ok(0)
        r == IF TruthyText(user_rating) THEN py_float(user_rating.v) ELSE Ok(None)
    IN  IF y.exc = "none" /\ r.exc = "none"
        THEN [year |-> y.v, user_rating |-> r.v]
        ELSE [year |-> 0, user_rating |-> None]

route_update_movie(d, user_id, movie_id, title, director, year, user_rating) ==
    LET c == convert_types(year, user_rating)
        out == update_movie(d, movie_id, title, director, c.year, c.user_rating)
    IN  Handled(out.db,
                DmCall("update_movie",
                       <<movie_id, title, director, c.year, c.user_rating>>, out),
                Redirect("user_movies", "Movie updated successfully!"))

route_delete_movie(d, user_id, movie_id) ==
    LET out == delete_movie(d, movie_id)
    IN  Handled(out.db, DmCall("delete_movie", <<movie_id>>, out),
                Redirect("user_movies", "Movie deleted successfully!"))

route_delete_user(d, user_id) ==
    IF get_user_by_id(d, user_id) = None
    THEN Handled(d, NoCall, Redirect("index", "User not found!"))
    ELSE LET out == delete_user(d, user_id)
         IN  Handled(out.db, DmCall("delete_user", <<user_id>>, out),
                     Redirect("index",
                              IF out.ret THEN "deleted successfully!"
                              ELSE "Error deleting user!"))

-----------------------------------------------------------------------------
(* The lookup functions of src/app.py.  key tells whether OMDB_API_KEY is  *)
(* set; the result is what the function returns or the exception that      *)
(* leaves it.                                                              *)

SearchLimit == 10

\* The except clauses of fetch_movie_from_api: requests.RequestException,
\* then (ValueError, KeyError); each returns None.
fetch_except(exc) ==
    IF exc \in {"RequestException", "ValueError", "KeyError"} THEN Ok(None)
    ELSE Raise(exc)

fetch_movie_from_api(title, key, answer, jsonErr) ==
    IF ~key THEN Ok(None)
    ELSE LET body == http_json(answer, jsonErr)
             found == response_true(body.v)
             data == body.v.d
             year == year_of(data)
             rating == rating_of(data)
         IN  IF body.exc # "none" THEN fetch_except(body.exc)
             ELSE IF found.exc # "none" THEN fetch_except(found.exc)
             ELSE IF ~found.v THEN Ok(None)
             ELSE IF year.exc # "none" THEN fetch_except(year.exc)
             ELSE IF rating.exc # "none" THEN fetch_except(rating.exc)
             ELSE Ok([title |-> dict_get(data, "Title", Str(title)),
                      director |-> dict_get(data, "Director", Str("Unknown")),
                      year |-> year.v,
                      rating |-> rating.v,
                      poster |-> poster_of(data),
                      imdb_id |-> dict_get(data, "imdbID", Str(""))])

\* The only except clause of search_movies_from_api.
search_except(exc) ==
    IF exc = "RequestException" THEN Ok(<<>>) ELSE Raise(exc)

\* The dict the loop appends for one entry of data['Search'].
search_hit(movie) ==
    [title |-> dict_get(movie.d, "Title", Str("")),
     year |-> dict_get(movie.d, "Year", Str(<<>>)),
     poster |-> poster_of(movie.d),
     imdb_id |-> dict_get(movie.d, "imdbID", Str(""))]

\* movies[:10]
first_hits(ms) ==
    SubSeq(ms, 1, IF Len(ms) < SearchLimit THEN Len(ms) ELSE SearchLimit)

search_movies_from_api(query, key, answer, jsonErr) ==
    IF ~key THEN Ok(<<>>)
    ELSE LET body == http_json(answer, jsonErr)
             found == response_true(body.v)
             list == dict_get(body.v.d, "Search", JsonList(<<>>))
         IN  IF body.exc # "none" THEN search_except(body.exc)
             ELSE IF found.exc # "none" THEN search_except(found.exc)
             ELSE IF ~found.v THEN Ok(<<>>)
             ELSE IF list.py # "list" THEN search_except("TypeError")
             ELSE IF \E i \in 1..Len(list.v) : list.v[i].py # "dict"
             THEN search_except("AttributeError")
             ELSE Ok(first_hits([i \in 1..Len(list.v) |-> search_hit(list.v[i])]))

-----------------------------------------------------------------------------
(* The inputs the calls are given.                                         *)

Names == {"", "Alice"}

FormNames == {None} \cup {Str(n) : n \in Names}

Text2010 == <<"2", "0", "1", "0">>

TextTBD == <<"T", "B", "D">>

Text90 == <<"9", ".", "0">>

Text88 == <<"8", ".", "8">>

TextAbc == <<"a", "b", "c">>

\* A movie as the lookup by id would fill it, and one with fallback values.
Enriched(owner) ==
    [user_id |-> owner, title |-> "Inception",
     director |-> "Christopher Nolan", year |-> 2010, rating |-> Float(88, 1),
     poster |-> Str("https://m.media/inception.jpg"),
     imdb_id |-> Str("tt1375666")]

Plain(owner) ==
    [user_id |-> owner, title |-> "Heat", director |-> "Unknown", year |-> 0,
     rating |-> Float(0, 0), poster |-> None, imdb_id |-> None]

SeedRows(owners) == {Enriched(o) : o \in owners} \cup {Plain(o) : o \in owners}

\* The arguments of update_movie.
UpdateTitles == {"Dune"}

UpdateDirectors == {"Denis Villeneuve"}

UpdateYears == {0, 1984}

UpdateRatings == {None, Float(9, 0)}

Text1984 == <<"1", "9", "8", "4">>

\* The year and user_rating fields the update form posts under SpecWeb.
FormYears == {Str(Text1984)}

FormRatings == {Str(Text90)}

FormTitles == {<<" ">>, <<" ", "H", "e", "a", "t">>}

ImdbIds == {"tt1375666"}

JsonErrs == {"RequestException", "ValueError"}

JsonAnswer(data) == [kind |-> "json", data |-> data]

FullData ==
    [Response |-> Str("True"), Title |-> Str("Inception"),
     Director |-> Str("Christopher Nolan"), Year |-> Str(Text2010),
     imdbRating |-> Str(Text88), Poster |-> Str("https://m.media/inception.jpg"),
     imdbID |-> Str("tt1375666")]

\* Answers that resolve nothing: the request fails, the body is no JSON or
\* no JSON object, or the service reports no match.
UnresolvedAnswers ==
    {[kind |-> "ConnectionError"], [kind |-> "HTTPError"],
     [kind |-> "not_json"], JsonAnswer(JsonList(<<>>)),
     JsonAnswer(JsonDict([Response |-> Str("False"),
                          Error |-> Str("Incorrect IMDb ID.")]))}

ResolvedAnswers ==
    {JsonAnswer(JsonDict(FullData)),
     JsonAnswer(JsonDict([FullData EXCEPT !.Year = None]))}

-----------------------------------------------------------------------------
(* Spec: the database under calls of the DataManager methods.              *)

DB == [users |-> users, movies |-> movies]

\* movies.db outlives the process and create_all leaves existing tables as
\* they are (app.py:21, 175): a run starts from a stored database.  It holds
\* rows of the two tables of models.py, named users only, and every movie's
\* user_id names a stored user.
Init ==
    /\ users \in UNION {[S -> Names \ {""}] : S \in SUBSET UserIds}
    /\ movies \in UNION {[M -> SeedRows(DOMAIN users)] : M \in SUBSET MovieIds}
    /\ call = [dm |-> NoCall, route |-> "init"]
    /\ before = DB

\* A direct call of a DataManager method.
Called(op, args, out) ==
    /\ users' = out.db.users
    /\ movies' = out.db.movies
    /\ call' = [dm |-> DmCall(op, args, out), route |-> "none"]
    /\ before' = DB

\* A request served by a handler.
Served(route, form, h) ==
    /\ users' = h.db.users
    /\ movies' = h.db.movies
    /\ call' = [dm |-> h.dm, resp |-> h.resp, route |-> route, form |-> form]
    /\ before' = DB

AddUser ==
    \E name \in Names :
        /\ NewId(DOMAIN users) <= MaxUsers
        /\ Called("add_user", <<name>>, add_user(DB, name))

DeleteUser ==
    \E user_id \in UserIds :
        Called("delete_user", <<user_id>>, delete_user(DB, user_id))

AddMovie ==
    \E user_id \in UserIds, row \in {Enriched(0), Plain(0)} :
        /\ NewId(DOMAIN movies) <= MaxMovies
        /\ Called("add_movie", <<user_id, row.rating>>,
                  add_movie(DB, user_id, row.title, row.director, row.year,
                            row.rating, row.poster, row.imdb_id))

UpdateMovie ==
    \E movie_id \in MovieIds, title \in UpdateTitles,
       director \in UpdateDirectors, year \in UpdateYears,
       user_rating \in UpdateRatings :
        Called("update_movie",
               <<movie_id, title, director, year, user_rating>>,
               update_movie(DB, movie_id, title, director, year, user_rating))

DeleteMovie ==
    \E movie_id \in MovieIds :
        Called("delete_movie", <<movie_id>>, delete_movie(DB, movie_id))

Next ==
    \/ AddUser
    \/ DeleteUser
    \/ AddMovie
    \/ UpdateMovie
    \/ DeleteMovie

Spec == Init /\ [][Next]_vars

-----------------------------------------------------------------------------
(* SpecWeb: the database under the requests the handlers of app.py serve.  *)

CreateUser ==
    \E name \in FormNames :
        /\ NewId(DOMAIN users) <= MaxUsers
        /\ Served("create_user", <<name>>, create_user(DB, name))

RouteAddMovie ==
    \E user_id \in UserIds, title \in FormTitles :
        Served("add_movie", <<user_id, title>>,
               route_add_movie(DB, user_id, title))

AddMovieById ==
    \E user_id \in UserIds, imdb_id \in ImdbIds,
       answer \in UnresolvedAnswers \cup ResolvedAnswers :
      \E jsonErr \in IF answer.kind = "not_json" THEN JsonErrs
                                                 ELSE {"ValueError"} :
        /\ NewId(DOMAIN movies) <= MaxMovies
        /\ Served("add_movie_by_id", <<user_id, imdb_id, answer>>,
                  add_movie_by_id(DB, user_id, imdb_id, answer, jsonErr))

RouteUpdateMovie ==
    \E user_id \in UserIds, movie_id \in MovieIds, title \in UpdateTitles,
       director \in UpdateDirectors, year \in FormYears,
       user_rating \in FormRatings :
        Served("update_movie", <<user_id, movie_id, year, user_rating>>,
               route_update_movie(DB, user_id, movie_id, title, director,
                                  year, user_rating))

RouteDeleteMovie ==
    \E user_id \in UserIds, movie_id \in MovieIds :
        Served("delete_movie", <<user_id, movie_id>>,
               route_delete_movie(DB, user_id, movie_id))

RouteDeleteUser ==
    \E user_id \in UserIds :
        Served("delete_user", <<user_id>>, route_delete_user(DB, user_id))

NextWeb ==
    \/ CreateUser
    \/ RouteAddMovie
    \/ AddMovieById
    \/ RouteUpdateMovie
    \/ RouteDeleteMovie
    \/ RouteDeleteUser

SpecWeb == Init /\ [][NextWeb]_vars

-----------------------------------------------------------------------------
(* SpecLookup: the two lookup functions on every bounded answer.           *)

Missing == [py |-> "missing"]

\* The JSON object with the members of fields that are not Missing.
DictOf(fields) ==
    JsonDict(Restrict(fields, {k \in DOMAIN fields : fields[k] # Missing}))

TitleAnswers ==
    {JsonAnswer(DictOf([Response |-> resp, Title |-> Str("Inception"),
                        Director |-> Str("Christopher Nolan"), Year |-> year,
                        imdbRating |-> rating, Poster |-> poster,
                        imdbID |-> Str("tt1375666")])) :
        resp \in {Str("True"), Str("False")},
        year \in {Missing, None, Float(2010, 0), Str(<<>>), Str(Text2010),
                  Str(TextTBD)},
        rating \in {Missing, None, Float(88, 1), Str(NA), Str(Text88),
                    Str(TextAbc)},
        poster \in {Missing, Str("N/A"), Str("https://m.media/inception.jpg")}}

\* The i-th entry the service lists; the even ones have no poster.
ServiceHit(i) ==
    JsonDict([Title |-> Str("Inception"), Year |-> Str(Text2010),
              Poster |-> IF i % 2 = 0 THEN Str("N/A")
                         ELSE Str("https://m.media/inception.jpg"),
              imdbID |-> Str(i)])

ServiceHits(n) == [i \in 1..n |-> ServiceHit(i)]

SearchAnswers ==
    {JsonAnswer(JsonDict([Response |-> Str("True"),
                          Search |-> JsonList(ServiceHits(n))])) :
        n \in 0..MaxHits}
    \cup {JsonAnswer(JsonDict([Response |-> Str("True")])),
          JsonAnswer(JsonDict([Response |-> Str("True"), Search |-> None])),
          JsonAnswer(JsonDict([Response |-> Str("True"),
                               Search |-> JsonList(<<Str("Inception")>>)])),
          JsonAnswer(JsonDict([Response |-> Str("False"),
                               Error |-> Str("Movie not found!")]))}

FailedAnswers ==
    {[kind |-> "ConnectionError"], [kind |-> "HTTPError"],
     [kind |-> "not_json"], JsonAnswer(JsonList(<<>>))}

InitLookup ==
    /\ users = <<>>
    /\ movies = <<>>
    /\ call = [dm |-> NoCall, route |-> "init"]
    /\ before = DB

Looked(fn, key, answer, jsonErr, out) ==
    /\ call' = [answer |-> answer, jsonErr |-> jsonErr, out |-> out,
                dm |-> NoCall, key |-> key, route |-> "none", fn |-> fn]
    /\ before' = DB
    /\ UNCHANGED <<users, movies>>

FetchMovie ==
    \E key \in BOOLEAN, answer \in TitleAnswers \cup FailedAnswers,
       jsonErr \in JsonErrs :
        Looked("fetch_movie_from_api", key, answer, jsonErr,
               fetch_movie_from_api("Inception", key, answer, jsonErr))

SearchMovies ==
    \E key \in BOOLEAN, answer \in SearchAnswers \cup FailedAnswers,
       jsonErr \in JsonErrs :
        Looked("search_movies_from_api", key, answer, jsonErr,
               search_movies_from_api("Inception", key, answer, jsonErr))

NextLookup == FetchMovie \/ SearchMovies

SpecLookup == InitLookup /\ [][NextLookup]_vars

-----------------------------------------------------------------------------
(* SpecForm: the update handler on every bounded pair of submitted texts.  *)

RECURSIVE TextsUpTo(_, _)
\* The texts of at most n characters of alphabet A.
TextsUpTo(A, n) ==
    IF n = 0 THEN {<<>>}
    ELSE LET shorter == TextsUpTo(A, n - 1)
         IN  shorter \cup {Append(t, c) : t \in shorter, c \in A}

YearTexts ==
    {None} \cup {Str(t) : t \in TextsUpTo({"7", "-", " ", "x"}, MaxTextLen)
                              \cup {Text2010, TextTBD}}

RatingTexts ==
    {None} \cup {Str(t) : t \in TextsUpTo({"9", ".", "x"}, MaxTextLen)
                              \cup {Text90, Text88, TextAbc, <<"n", "a", "n">>}}

InitForm ==
    /\ users = (1 :> "Alice")
    /\ movies = (1 :> Enriched(1))
    /\ call = [dm |-> NoCall, route |-> "init"]
    /\ before = DB

SubmitUpdate ==
    \E year \in YearTexts, user_rating \in RatingTexts :
        Served("update_movie", <<1, 1, year, user_rating>>,
               route_update_movie(DB, 1, 1, "Dune", "Denis Villeneuve",
                                  year, user_rating))

NextForm == SubmitUpdate

SpecForm == InitForm /\ [][NextForm]_vars

-----------------------------------------------------------------------------
(* The claims.  A claim about a call reads the call's record, the tables   *)
(* before it and the tables after it.                                      *)

\* The call whose outcome the state shows was DataManager method op, made
\* directly or by a handler.
Did(op) == call.dm.op = op

\* The movies a user owned when the call started.
OwnedBefore(user_id) == get_user_movies(before, user_id)

\* C1: update_movie on an existing movie, whatever title, director, year and
\* user rating it is given, leaves the movie's rating, poster, imdb_id and
\* user_id as they were, in the stored row and in the returned object.
C1_UpdateKeepsExternalFields ==
    (Did("update_movie") /\ call.dm.args[1] \in DOMAIN before.movies) =>
        LET id == call.dm.args[1]
            old == before.movies[id]
        IN  /\ id \in DOMAIN movies
            /\ \A f \in {"rating", "poster", "imdb_id", "user_id"} :
                   /\ movies[id][f] = old[f]
                   /\ call.dm.ret[f] = old[f]

\* C1 happens: a movie with an OMDb rating of 8.8 and a poster was given a
\* new title and a user rating of 9.
C1_Witness ==
    /\ Did("update_movie")
    /\ call.dm.args[1] \in DOMAIN before.movies
    /\ before.movies[call.dm.args[1]].rating = Float(88, 1)
    /\ before.movies[call.dm.args[1]].poster # None
    /\ call.dm.args[5] = Float(9, 0)
    /\ movies[call.dm.args[1]].title # before.movies[call.dm.args[1]].title

\* C2: in every reachable state every stored movie's user_id is the id of a
\* stored user, and add_movie for a user_id that names no user returns None
\* and stores nothing.
C2_NoOrphanedMovie ==
    /\ \A m \in DOMAIN movies : movies[m].user_id \in DOMAIN users
    /\ (Did("add_movie") /\ call.dm.args[1] \notin DOMAIN before.users) =>
           /\ movies = before.movies
           /\ call.dm.ret = None
           /\ call.dm.exc = "none"

\* C2 happens: a user who owned movies was deleted while another user's
\* movie stayed.
C2_Witness ==
    /\ Did("delete_user")
    /\ call.dm.ret = TRUE
    /\ OwnedBefore(call.dm.args[1]) # {}
    /\ DOMAIN movies # {}

\* C3: delete_user of an existing user returns True and removes that user
\* and exactly the movies the user owned, every other row staying as it
\* was; of an id that names no user it returns False and changes nothing.
C3_DeleteUserCascade ==
    Did("delete_user") =>
        LET id == call.dm.args[1]
        IN  IF id \in DOMAIN before.users
            THEN /\ call.dm.ret = TRUE
                 /\ get_user_by_id(DB, id) = None
                 /\ get_user_movies(DB, id) = {}
                 /\ DOMAIN users = DOMAIN before.users \ {id}
                 /\ \A u \in DOMAIN users : users[u] = before.users[u]
                 /\ DOMAIN movies = DOMAIN before.movies \ OwnedBefore(id)
                 /\ \A m \in DOMAIN movies : movies[m] = before.movies[m]
            ELSE /\ call.dm.ret = FALSE
                 /\ users = before.users
                 /\ movies = before.movies

\* C3 happens: the deleted user owned a movie and another user owned one.
C3_Witness ==
    /\ Did("delete_user")
    /\ call.dm.ret = TRUE
    /\ Cardinality(OwnedBefore(call.dm.args[1])) >= 1
    /\ \E m \in DOMAIN movies : movies[m].user_id # call.dm.args[1]
    /\ DOMAIN users # {}

\* C4 (as claimed): a movie added for an existing user with rating r is
\* listed for that user with rating r and an unset user rating, and after
\* update_movie with user rating u the stored movie reads user rating u and
\* still rating r.
C4_RatingsRoundTrip ==
    /\ (Did("add_movie") /\ call.dm.args[1] \in DOMAIN before.users) =>
           \E m \in get_user_movies(DB, call.dm.args[1]) \ DOMAIN before.movies :
               /\ movies[m].rating = call.dm.args[2]
               /\ read_user_rating(movies[m]) = Ok(None)
    /\ (Did("update_movie") /\ call.dm.args[1] \in DOMAIN before.movies) =>
           /\ read_user_rating(movies[call.dm.args[1]]) = Ok(call.dm.args[5])
           /\ movies[call.dm.args[1]].rating
                  = before.movies[call.dm.args[1]].rating

\* C5 (as claimed): a title posted for an existing user ends with a stored
\* movie of that user; no lookup having answered, the movie has director
\* "Unknown", rating 0.0, no poster and no imdb_id.
C5_AddByTitlePersists ==
    (/\ call.route = "add_movie"
     /\ call.form[1] \in DOMAIN before.users
     /\ str_strip(call.form[2]) # <<>>) =>
        \E m \in get_user_movies(DB, call.form[1]) \ DOMAIN before.movies :
            /\ movies[m].director = "Unknown"
            /\ movies[m].rating = Float(0, 0)
            /\ movies[m].poster = None
            /\ movies[m].imdb_id = None

\* C6: a request to add a movie by an identifier the lookup cannot resolve
\* (request error, a body that is no JSON or no JSON object, no match)
\* leaves every user's movies, and the users, as they were.
C6_UnresolvedIdAddsNothing ==
    (call.route = "add_movie_by_id" /\ call.form[3] \in UnresolvedAnswers) =>
        /\ movies = before.movies
        /\ users = before.users
        /\ \A u \in UserIds :
               Cardinality(get_user_movies(DB, u)) = Cardinality(OwnedBefore(u))

\* C6 happens: the service reported no match for a user who has a movie.
C6_Witness ==
    /\ call.route = "add_movie_by_id"
    /\ call.form[3] \in UnresolvedAnswers
    /\ call.resp = Redirect("user_movies", "Could not fetch movie details.")
    /\ OwnedBefore(call.form[1]) # {}

\* C7 (as claimed): no stored user has an empty name, add_user with an
\* empty name raising a validation error and storing nothing; add_user with
\* another name stores a user that get_user_by_id finds under that name.
C7_NoEmptyUserName ==
    /\ \A u \in DOMAIN users : users[u] # ""
    /\ Did("add_user") =>
           IF call.dm.args[1] = ""
           THEN call.dm.exc = "ValidationError" /\ users = before.users
           ELSE get_user_by_id(DB, call.dm.ret.id).name = call.dm.args[1]

\* C8: delete_movie of an id that names no movie returns False and changes
\* nothing; of an existing id it returns True and removes that movie only.
C8_DeleteMovieOnlyThat ==
    Did("delete_movie") =>
        LET id == call.dm.args[1]
        IN  /\ users = before.users
            /\ IF id \in DOMAIN before.movies
               THEN /\ call.dm.ret = TRUE
                    /\ DOMAIN movies = DOMAIN before.movies \ {id}
                    /\ \A m \in DOMAIN movies : movies[m] = before.movies[m]
               ELSE /\ call.dm.ret = FALSE
                    /\ movies = before.movies

\* C8 happens: one of two stored movies was deleted.
C8_Witness ==
    /\ Did("delete_movie")
    /\ call.dm.ret = TRUE
    /\ call.dm.args[1] \in DOMAIN before.movies
    /\ DOMAIN movies # {}

\* Whether the call on record is one of the lookup functions.
Looks(fn) == "fn" \in DOMAIN call /\ call.fn = fn

\* The failure modes of a lookup: no key, a failed request, a body that is
\* no JSON, a body of another shape than the code reads, no match.
LookupSucceeds ==
    /\ call.key
    /\ call.answer.kind = "json"
    /\ call.answer.data.py = "dict"
    /\ dict_get(call.answer.data.d, "Response", None) = Str("True")
    /\ \A k \in {"Year", "imdbRating"} \cap DOMAIN call.answer.data.d :
           call.answer.data.d[k].py = "str"
    /\ "Search" \in DOMAIN call.answer.data.d =>
           /\ call.answer.data.d.Search.py = "list"
           /\ \A i \in DOMAIN call.answer.data.d.Search.v :
                  call.answer.data.d.Search.v[i].py = "dict"

\* C9 (as claimed): neither lookup function lets an exception out; on every
\* failure the title lookup returns None and the search an empty list; a
\* search that succeeds returns the first 10 hits at most, in the service's
\* order.
C9_LookupNeverRaises ==
    /\ Looks("fetch_movie_from_api") =>
           /\ call.out.exc = "none"
           /\ ~LookupSucceeds => call.out.v = None
    /\ Looks("search_movies_from_api") =>
           /\ call.out.exc = "none"
           /\ ~LookupSucceeds => call.out.v = <<>>
           /\ LookupSucceeds =>
                  LET listed == dict_get(call.answer.data.d, "Search",
                                         JsonList(<<>>)).v
                  IN  /\ Len(call.out.v) <= SearchLimit
                      /\ Len(call.out.v) <= Len(listed)
                      /\ \A i \in 1..Len(call.out.v) :
                             call.out.v[i].imdb_id = listed[i].d.imdbID

\* What C10 says a year text becomes: its value if it is all digits, else 0.
ClaimedYear(year) ==
    IF year # None /\ str_isdigit(year.v) THEN DecVal(year.v) ELSE 0

\* What C10 says a user_rating text becomes: unset if it is empty or no
\* number, else its value.
ClaimedRating(user_rating) ==
    IF user_rating = None \/ user_rating.v = <<>> THEN None
    ELSE IF py_float(user_rating.v).exc # "none" THEN None
    ELSE py_float(user_rating.v).v

\* C10 (as claimed): the update handler passes update_movie the year and the
\* user rating that each text gives by its own rule, whatever the other
\* text is.
C10_FieldsParsedIndependently ==
    (call.route = "update_movie") =>
        /\ call.dm.args[4] = ClaimedYear(call.form[3])
        /\ call.dm.args[5] = ClaimedRating(call.form[4])

=============================================================================
